---------------------------- MODULE Spec2Model ----------------------------
(***************************************************************************)
(* Model of the release-notes generator                                    *)
(* (scripts/generate_release_notes.py, scripts/ai_provider.py).            *)
(*                                                                         *)
(* Texts.  A Python str is modelled as a sequence of lexemes.  A lexeme is *)
(* either one character the code looks for ("*", "\n", " ", the box        *)
(* drawing character of the divider, JSON punctuation, ...) or an opaque   *)
(* word: a run of characters that holds none of the special characters and *)
(* that no pattern of the code can match inside.  Every pattern the code   *)
(* searches for (the 50-character divider, "PR #", the json code fence,    *)
(* the chore(deps) prefix) is a sequence of whole lexemes, so split,       *)
(* strip, startswith and the regular expressions are computed lexeme by    *)
(* lexeme exactly as Python computes them character by character.  The     *)
(* three non-ASCII string literals of the source (the bullet, the small    *)
(* circle and the unit repeated 50 times in the divider) are written       *)
(* BULLET, CIRC and BOX, and the three-backtick fence FENCE.               *)
(***************************************************************************)
EXTENDS Naturals, Sequences, FiniteSets, TLC

NL == "\n"
SP == " "
STAR == "*"
QUOTE == "\""
BULLET == "<bullet>"
CIRC == "<circ>"
BOX == "<box>"
FENCE == "<fence>"

\* Width of the visual separator: "BOX" * 50.
DividerLen == 50

\* ------------------------------------------------------------------------
\* Python str primitives, on lexeme sequences
\* ------------------------------------------------------------------------

IsSpace(c) == c \in {SP, NL}

Rep(c, n) == [i \in 1..n |-> c]

Tail2(t, i) == SubSeq(t, i, Len(t))

\* t.startswith(p)
StartsWith(t, p) == Len(t) >= Len(p) /\ SubSeq(t, 1, Len(p)) = p

\* t.endswith(p)
EndsWith(t, p) == Len(t) >= Len(p) /\ SubSeq(t, Len(t) - Len(p) + 1, Len(t)) = p

\* t.lstrip(chars) / t.rstrip(chars) / t.strip(chars), chars a set of lexemes
RECURSIVE LStripSet(_, _)
LStripSet(t, cs) ==
    IF t # <<>> /\ Head(t) \in cs THEN LStripSet(Tail(t), cs) ELSE t

RECURSIVE RStripSet(_, _)
RStripSet(t, cs) ==
    IF t # <<>> /\ t[Len(t)] \in cs THEN RStripSet(SubSeq(t, 1, Len(t) - 1), cs) ELSE t

StripSet(t, cs) == RStripSet(LStripSet(t, cs), cs)

\* t.strip()
Strip(t) == StripSet(t, {SP, NL})

\* t.find(sep): the first index at which sep occurs in t, 0 when it does not
\* (sep is never empty).
Least(hits) == IF hits = {} THEN 0 ELSE CHOOSE i \in hits : \A j \in hits : i <= j

Find(t, sep) ==
    Least({i \in 1..(Len(t) + 1 - Len(sep)) :
              t[i] = sep[1] /\ SubSeq(t, i, i + Len(sep) - 1) = sep})

\* t.split(sep): non-overlapping occurrences, left to right.
RECURSIVE Split(_, _)
RECURSIVE SplitAt(_, _, _)
SplitAt(t, sep, i) ==
    IF i = 0 THEN <<t>>
    ELSE <<SubSeq(t, 1, i - 1)>> \o Split(Tail2(t, i + Len(sep)), sep)

Split(t, sep) == SplitAt(t, sep, Find(t, sep))

\* sep.join(parts)
RECURSIVE Join(_, _)
Join(parts, sep) ==
    IF parts = <<>> THEN <<>>
    ELSE IF Len(parts) = 1 THEN parts[1]
    ELSE parts[1] \o sep \o Join(Tail(parts), sep)

\* t.replace(c, r) for a one-lexeme pattern c (computed by halves).
RECURSIVE Replace(_, _, _)
RECURSIVE ReplaceHalves(_, _, _, _)
ReplaceHalves(t, c, r, h) ==
    Replace(SubSeq(t, 1, h), c, r) \o Replace(Tail2(t, h + 1), c, r)

Replace(t, c, r) ==
    IF t = <<>> THEN <<>>
    ELSE IF Len(t) = 1 THEN (IF t[1] = c THEN r ELSE t)
    ELSE ReplaceHalves(t, c, r, Len(t) \div 2)

\* ------------------------------------------------------------------------
\* json.loads, on lexeme sequences.  A parsed value is [k |-> kind, v |-> seq]:
\*   "str": v the lexemes of the string      "num": v = <<digit>>
\*   "null": v = <<>>                         "arr": v the elements
\*   "obj": v the members [key |-> lexemes, val |-> value], in document order
\* ------------------------------------------------------------------------

JStr(s) == [k |-> "str", v |-> s]
JNum(d) == [k |-> "num", v |-> <<d>>]
JNull == [k |-> "null", v |-> <<>>]
JArr(a) == [k |-> "arr", v |-> a]
JObj(m) == [k |-> "obj", v |-> m]

JFail == [ok |-> FALSE, val |-> JNull, nxt |-> 0]
JOk(val, nxt) == [ok |-> TRUE, val |-> val, nxt |-> nxt]

IsDigit(c) == c \in {"0", "1", "2", "3", "4", "5", "6", "7", "8", "9"}

RECURSIVE SkipWs(_, _)
SkipWs(t, i) == IF i <= Len(t) /\ IsSpace(t[i]) THEN SkipWs(t, i + 1) ELSE i

RECURSIVE ParseValue(_, _)
RECURSIVE ParseValueAt(_, _)
RECURSIVE ParseElements(_, _, _)
RECURSIVE AfterElement(_, _, _)
RECURSIVE ElementSep(_, _, _)
RECURSIVE ParseMembers(_, _, _)
RECURSIVE MemberKey(_, _, _)
RECURSIVE MemberColon(_, _, _)
RECURSIVE MemberValue(_, _, _, _)
RECURSIVE AfterMember(_, _, _, _)
RECURSIVE MemberSep(_, _, _)

\* A string whose opening quote is at j and whose closing quote is q after it
\* (q = 0: none); a raw line break inside a string is an error.
ParseString(t, j, q) ==
    IF q = 0 \/ \E n \in (j + 1)..(j + q - 1) : t[n] = NL THEN JFail
    ELSE JOk(JStr(SubSeq(t, j + 1, j + q - 1)), j + q + 1)

\* After "[" with n the next position that is no white space.
ParseArray(t, n) ==
    IF n <= Len(t) /\ t[n] = "]" THEN JOk(JArr(<<>>), n + 1)
    ELSE ParseElements(t, n, <<>>)

\* After "{" with n the next position that is no white space.
ParseObject(t, n) ==
    IF n <= Len(t) /\ t[n] = "}" THEN JOk(JObj(<<>>), n + 1)
    ELSE ParseMembers(t, n, <<>>)

\* One JSON value starting at position j of t, no white space at j.
ParseValueAt(t, j) ==
    IF j > Len(t) THEN JFail
    ELSE IF t[j] = QUOTE THEN ParseString(t, j, Find(Tail2(t, j + 1), <<QUOTE>>))
    ELSE IF t[j] = "[" THEN ParseArray(t, SkipWs(t, j + 1))
    ELSE IF t[j] = "{" THEN ParseObject(t, SkipWs(t, j + 1))
    ELSE IF t[j] = "null" THEN JOk(JNull, j + 1)
    ELSE IF IsDigit(t[j]) THEN JOk(JNum(t[j]), j + 1)
    ELSE JFail

\* One JSON value starting at or after position i of t.
ParseValue(t, i) == ParseValueAt(t, SkipWs(t, i))

\* The elements of an array after "[" or ",": a value r, then at n a "," or
\* the closing "]".
ElementSep(t, n, acc) ==
    IF n > Len(t) THEN JFail
    ELSE IF t[n] = "," THEN ParseElements(t, n + 1, acc)
    ELSE IF t[n] = "]" THEN JOk(JArr(acc), n + 1)
    ELSE JFail

AfterElement(t, r, acc) ==
    IF ~r.ok THEN JFail ELSE ElementSep(t, SkipWs(t, r.nxt), Append(acc, r.val))

ParseElements(t, i, acc) == AfterElement(t, ParseValue(t, i), acc)

\* The members of an object after "{" or ",": a string key at j, ":" at c, a
\* value r, then at n a "," or the closing "}".
MemberSep(t, n, acc) ==
    IF n > Len(t) THEN JFail
    ELSE IF t[n] = "," THEN ParseMembers(t, n + 1, acc)
    ELSE IF t[n] = "}" THEN JOk(JObj(acc), n + 1)
    ELSE JFail

AfterMember(t, key, r, acc) ==
    IF ~r.ok THEN JFail
    ELSE MemberSep(t, SkipWs(t, r.nxt), Append(acc, [key |-> key, val |-> r.val]))

MemberValue(t, key, c, acc) ==
    IF c > Len(t) \/ t[c] # ":" THEN JFail
    ELSE AfterMember(t, key, ParseValue(t, c + 1), acc)

MemberColon(t, key, acc) ==
    IF ~key.ok THEN JFail ELSE MemberValue(t, key.val.v, SkipWs(t, key.nxt), acc)

MemberKey(t, j, acc) ==
    IF j > Len(t) \/ t[j] # QUOTE THEN JFail
    ELSE MemberColon(t, ParseValueAt(t, j), acc)

ParseMembers(t, i, acc) == MemberKey(t, SkipWs(t, i), acc)

\* The value parsed is the whole text, but for white space.
WholeText(t, r) == IF r.ok /\ SkipWs(t, r.nxt) > Len(t) THEN r ELSE JFail

\* json.loads(t): [ok |-> FALSE] stands for JSONDecodeError.
json_loads(t) == WholeText(t, ParseValue(t, 1))

\* ------------------------------------------------------------------------
\* Python's handling of the parsed value
\* ------------------------------------------------------------------------

\* d.get(key, default) of a dict: the last member with that key wins.
LastOf(d, hits, default) ==
    IF hits = {} THEN default
    ELSE d.v[CHOOSE i \in hits : \A j \in hits : j <= i].val

DictGet(d, key, default) ==
    LastOf(d, {i \in 1..Len(d.v) : d.v[i].key = key}, default)

\* bool(v)
Truthy(v) == IF v.k = "num" THEN v.v # <<"0">> ELSE v.v # <<>>

\* Whether "for x in v" is possible (otherwise TypeError) and what it yields:
\* the elements of a list, the keys of a dict, the characters of a str.
Iterable(v) == v.k \in {"arr", "obj", "str"}

IterElems(v) ==
    IF v.k = "arr" THEN v.v
    ELSE IF v.k = "obj" THEN [i \in 1..Len(v.v) |-> JStr(v.v[i].key)]
    ELSE [i \in 1..Len(v.v) |-> JStr(<<v.v[i]>>)]

\* str(v) inside an f-string, for the scalar values.
PyStr(v) == IF v.k = "null" THEN <<"None">> ELSE v.v

\* ------------------------------------------------------------------------
\* ReleaseNotesGenerator: the pure methods
\* ------------------------------------------------------------------------

\* A PullRequest is [title, body, number, url, labels]: title, body and url
\* texts, labels a sequence of texts (merged_at and repo_name are never read
\* after the fetch).

\* str.lower() on the words of the titles.
Lower(w) ==
    IF w \in {"chore", "Chore", "CHORE"} THEN "chore"
    ELSE IF w \in {"deps", "Deps", "DEPS"} THEN "deps"
    ELSE w

\* re.compile(r'^chore\(deps\)', re.IGNORECASE).match(title)
DepsPatternMatchCaseSensitive(title) ==
    StartsWith(title, <<"chore", "(", "deps", ")">>)

deps_pattern_match(title) ==
    /\ Len(title) >= 4
    /\ Lower(title[1]) = "chore"
    /\ title[2] = "("
    /\ Lower(title[3]) = "deps"
    /\ title[4] = ")"

\* filter_prs: the loop over prs, appending to regular_prs or deps_prs.
RECURSIVE FilterLoop(_, _, _)
FilterLoop(prs, regular_prs, deps_prs) ==
    IF prs = <<>> THEN [regular |-> regular_prs, deps |-> deps_prs]
    ELSE IF deps_pattern_match(Head(prs).title)
         THEN FilterLoop(Tail(prs), regular_prs, Append(deps_prs, Head(prs)))
         ELSE FilterLoop(Tail(prs), Append(regular_prs, Head(prs)), deps_prs)

filter_prs(prs) == FilterLoop(prs, <<>>, <<>>)

\* "No pull requests found."
Sentinel == <<"No pull requests found.">>

PR_MARK == "PR #"

\* The block of one PR (lines 208-221): title and body are the stripped ones.
PrInfoOf(pr, title, body) ==
    <<PR_MARK, ToString(pr.number), ":", SP>> \o title
    \o (IF body # <<>> THEN <<NL, "Description", ":", SP>> \o body ELSE <<>>)
    \o (IF pr.labels # <<>>
        THEN <<NL, "Labels", ":", SP>> \o Join(pr.labels, <<",", SP>>) ELSE <<>>)
    \o (IF pr.url # <<>> THEN <<NL, "URL", ":", SP>> \o pr.url ELSE <<>>)

PrInfo(pr) == PrInfoOf(pr, Strip(pr.title), Strip(pr.body))

FormatPrsEmptyUnchecked(prs) == Join([i \in 1..Len(prs) |-> PrInfo(prs[i])], <<NL, NL>>)

format_prs_for_summary(prs) ==
    IF prs = <<>> THEN Sentinel
    ELSE Join([i \in 1..Len(prs) |-> PrInfo(prs[i])], <<NL, NL>>)

\* "BOX" * 50
Divider == Rep(BOX, DividerLen)

\* f"*{repo_name}*: No changes in the specified time period."
NoChangesUnnamed(repo_name) ==
    <<STAR, STAR, ":", SP, "No changes in the specified time period.">>

NoChanges(repo_name) ==
    <<STAR>> \o repo_name \o <<STAR, ":", SP, "No changes in the specified time period.">>

\* The count-only sentence of the outer except (line 355).
CountFallback(repo_name, prs_text) ==
    <<STAR>> \o repo_name \o <<STAR, ":", SP>>
    \o <<ToString(Len(Split(prs_text, <<PR_MARK>>)) - 1)>>
    \o <<SP, "pull requests merged. See individual PRs for details.">>

\* The raw-text fallback of the inner except (line 350).
RawFallback(repo_name, summary_json) ==
    <<STAR>> \o repo_name \o <<STAR, ":", NL, NL>> \o summary_json

\* re.sub(r'^json\s*', '', t)
StripJsonTag(t) ==
    IF StartsWith(t, <<"json">>) THEN Tail2(t, SkipWs(t, 2)) ELSE t

\* re.sub(r'^```json\s*', '', t)
StripFenceOpen(t) ==
    IF StartsWith(t, <<FENCE, "json">>) THEN Tail2(t, SkipWs(t, 3)) ELSE t

\* re.sub(r'\s*```$', '', t): "$" is the end of t, or the place before a
\* final line break; the match takes the white space before the fence.
StripFenceClose(t) ==
    IF EndsWith(t, <<FENCE>>)
    THEN RStripSet(SubSeq(t, 1, Len(t) - 1), {SP, NL})
    ELSE IF EndsWith(t, <<FENCE, NL>>)
    THEN RStripSet(SubSeq(t, 1, Len(t) - 2), {SP, NL}) \o <<NL>>
    ELSE t

\* Lines 323-326.
CleanNoFence(summary_json) == StripJsonTag(Strip(summary_json))

CleanReply(summary_json) ==
    StripFenceClose(StripFenceOpen(StripJsonTag(Strip(summary_json))))

\* The bullet lines of one category (lines 339-340).
RECURSIVE FormatItems(_)
FormatItems(items) ==
    IF items = <<>> THEN <<>>
    ELSE <<SP, SP, CIRC, SP>> \o PyStr(Head(items)) \o <<NL>> \o FormatItems(Tail(items))

\* f"\n<bullet> *{category_name}*:\n"
CategoryLine(category_name) ==
    <<NL, BULLET, SP, STAR>> \o PyStr(category_name) \o <<STAR, ":", NL>>

\* The loop over data.get('categories', []) (lines 333-340): [exc, text],
\* exc the exception that ends it, "none" when it runs to its end.
RECURSIVE FormatCategories(_, _)
RECURSIVE FormatCategory(_, _, _, _)
FormatCategory(rest, acc, category_name, items) ==
    IF ~Truthy(items) THEN FormatCategories(rest, acc)
    ELSE IF ~Iterable(items) THEN [exc |-> "TypeError", text |-> acc]
    ELSE FormatCategories(rest, acc \o CategoryLine(category_name)
                                    \o FormatItems(IterElems(items)))

FormatCategories(cats, acc) ==
    IF cats = <<>> THEN [exc |-> "none", text |-> acc]
    ELSE IF Head(cats).k # "obj" THEN [exc |-> "AttributeError", text |-> acc]
    ELSE FormatCategory(Tail(cats), acc, DictGet(Head(cats), <<"name">>, JStr(<<>>)),
                        DictGet(Head(cats), <<"items">>, JArr(<<>>)))

\* Lines 342-345: the divider after the categories.
WithDivider(r) ==
    IF r.exc # "none" THEN r
    ELSE [exc |-> "none", text |-> r.text \o <<NL>> \o Divider \o <<NL>>]

\* Lines 331-345, for the categories found.
FormatCats(repo_name, cats) ==
    IF ~Iterable(cats) THEN [exc |-> "TypeError", text |-> <<>>]
    ELSE WithDivider(FormatCategories(IterElems(cats), <<STAR>> \o repo_name \o <<STAR, NL>>))

\* Lines 328-345, for the result of json.loads.
FormatData(repo_name, data) ==
    IF ~data.ok THEN [exc |-> "JSONDecodeError", text |-> <<>>]
    ELSE IF data.val.k # "obj" THEN [exc |-> "AttributeError", text |-> <<>>]
    ELSE FormatCats(repo_name, DictGet(data.val, <<"categories">>, JArr(<<>>)))

\* The inner try block (lines 318-345): [exc, text].
FormatReply(repo_name, summary_json) ==
    FormatData(repo_name, json_loads(Strip(CleanReply(summary_json))))

\* The two except clauses (lines 347-355), for the outcome r of the inner try.
Recover(repo_name, prs_text, summary_json, r) ==
    IF r.exc = "none"
    THEN [text |-> r.text, called |-> TRUE, branch |-> "structured"]
    ELSE IF r.exc \in {"JSONDecodeError", "KeyError", "TypeError"}
    THEN [text |-> RawFallback(repo_name, summary_json), called |-> TRUE, branch |-> "raw"]
    ELSE [text |-> CountFallback(repo_name, prs_text), called |-> TRUE, branch |-> "count"]

\* summarize_with_ai(repo_name, prs_text) when the provider's generate_summary
\* would behave as `provider` = [raises, reply].  The result holds the text
\* returned, whether generate_summary was called, and the return statement
\* taken.
summarize_with_ai(repo_name, prs_text, provider) ==
    IF prs_text = <<>> \/ prs_text = Sentinel
    THEN [text |-> NoChanges(repo_name), called |-> FALSE, branch |-> "no_changes"]
    ELSE IF provider.raises
    THEN [text |-> CountFallback(repo_name, prs_text), called |-> TRUE, branch |-> "count"]
    ELSE Recover(repo_name, prs_text, provider.reply,
                 FormatReply(repo_name, provider.reply))

\* text_version (line 367)
TextVersion(message) ==
    Replace(Replace(Replace(Replace(message, STAR, <<>>), BULLET, <<"-">>),
                    CIRC, <<SP, SP, "-">>), BOX, <<"-">>)

HeaderBlock(text) == [type |-> "header", text |-> text]
DividerBlock == [type |-> "divider", text |-> <<>>]
SectionBlock(text) == [type |-> "section", text |-> text]

\* The blocks of a section whose first line is an emphasised name
\* (lines 398-424).
RepoBlocksDividerWithContent(repo_name, content) ==
    <<HeaderBlock(repo_name)>>
    \o (IF content # <<>> THEN <<SectionBlock(content), DividerBlock>> ELSE <<>>)

RepoBlocks(repo_name, content) ==
    <<HeaderBlock(repo_name)>>
    \o (IF content # <<>> THEN <<SectionBlock(content)>> ELSE <<>>)
    \o <<DividerBlock>>

\* Lines 395-396, for the lines of a section that is not empty.
LinesBlocks(lines) ==
    IF StartsWith(lines[1], <<STAR>>) /\ EndsWith(lines[1], <<STAR>>)
    THEN RepoBlocks(StripSet(lines[1], {STAR}), Strip(Join(Tail(lines), <<NL>>)))
    ELSE <<>>

\* Lines 393-395, for a stripped section.
StrippedBlocks(section) ==
    IF section = <<>> THEN <<>> ELSE LinesBlocks(Split(section, <<NL>>))

\* The blocks one section of the split message adds (lines 392-424).
SectionBlocks(raw_section) == StrippedBlocks(Strip(raw_section))

RECURSIVE ConcatBlocks(_)
ConcatBlocks(sections) ==
    IF sections = <<>> THEN <<>>
    ELSE SectionBlocks(Head(sections)) \o ConcatBlocks(Tail(sections))

\* header_text (lines 373-375); an empty date_range is the None of the source.
HeaderText(date_range) ==
    <<"Release Notes">> \o (IF date_range # <<>> THEN <<SP, "(">> \o date_range \o <<")">> ELSE <<>>)

\* blocks, as post_to_slack builds them (lines 370-424).
BuildBlocks(message, date_range) ==
    <<HeaderBlock(HeaderText(date_range)), DividerBlock>>
    \o ConcatBlocks(Split(message, Divider))

\* f"*{repo}*: Error processing repository - {str(e)}"
ErrorSentenceNoRepo(repo, e) ==
    <<STAR, STAR, ":", SP, "Error processing repository", SP, "-", SP>> \o e

ErrorSentence(repo, e) ==
    <<STAR>> \o repo \o <<STAR, ":", SP, "Error processing repository", SP, "-", SP>> \o e

\* "if not repo: continue", after repo = repo.strip()
IsBlankRepoUnstripped(repo) == repo = <<>>

IsBlankRepo(repo) == Strip(repo) = <<>>

\* Where control goes after chat_postMessage: post_to_slack logs and re-raises,
\* generate_release_notes does not catch, main exits with status 1.
AfterPostSwallowed(ok) == "write"

AfterPost(ok) == IF ok THEN "write" ELSE "exit1"

\* "if self.ai_provider.test_connection(): ... else: raise Exception(...)"
AiCheckIgnored(result) == TRUE

AiCheckPasses(result) == result

\* ------------------------------------------------------------------------
\* The environment: the inputs and the replies of the three services
\* ------------------------------------------------------------------------

\* The longest repository list given to generate_release_notes.
MaxRepos == 2
\* The longest pull-request list given to filter_prs and format_prs_for_summary.
MaxPRs == 2
\* The most repository sections in a message given to post_to_slack directly.
MaxSections == 2

BSeq(S, n) == UNION {[1..m -> S] : m \in 0..n}

Injective(q) == \A i, j \in 1..Len(q) : i # j => q[i] # q[j]

\* Entries of the repos argument: two names (one with white space around it)
\* and a blank one.
RepoArgs == {<<"org/a">>, <<SP, "org/b", SP>>, <<SP>>}

\* Repository names given to summarize_with_ai directly.
RepoPool == {<<"org/a">>, <<"org/b">>}

PrFeature ==
    [title |-> <<"Add", SP, "login">>, body |-> <<"Adds", SP, "OAuth", NL>>, number |-> 1,
     url |-> <<"https://h/pull/1">>, labels |-> <<<<"feature">>, <<"auth">>>>]
PrDeps ==
    [title |-> <<"chore", "(", "deps", ")", ":", SP, "bump", SP, "x">>, body |-> <<>>,
     number |-> 2, url |-> <<"https://h/pull/2">>, labels |-> <<<<"dependencies">>>>]
PrDepsUpper ==
    [title |-> <<"Chore", "(", "DEPS", ")", SP, "bump", SP, "y">>, body |-> <<>>,
     number |-> 3, url |-> <<"https://h/pull/3">>, labels |-> <<>>]
PrMentionsDeps ==
    [title |-> <<SP, "fix", ":", SP, "chore", "(", "deps", ")", SP, "typo">>,
     body |-> <<"See", SP, PR_MARK, "2">>, number |-> 4, url |-> <<>>, labels |-> <<>>]
PrRevert ==
    [title |-> <<"Revert", SP, PR_MARK, "1">>, body |-> <<>>, number |-> 5,
     url |-> <<"https://h/pull/5">>, labels |-> <<>>]

PrPool == {PrFeature, PrDeps, PrDepsUpper, PrMentionsDeps, PrRevert}

\* Pull-request lists: a pull request occurs once in a list (its number is
\* unique in its repository).
PrLists == {q \in BSeq(PrPool, MaxPRs) : Injective(q)}

\* What get_merged_prs returns in a run, when it returns.
RunFetches == {<<>>, <<PrFeature>>, <<PrDeps, PrRevert>>}

FetchError == <<"404", SP, "Not Found">>

\* The documents the model can be asked to return: each a list of
\* categories [name, items].
DocOne == <<[name |-> <<"Features">>, items |-> <<<<"Added", SP, "X">>>>]>>
DocTwo ==
    <<[name |-> <<"Features">>, items |-> <<<<"Added", SP, "X">>, <<"Added", SP, "Y">>>>],
      [name |-> <<"Bug", SP, "Fixes">>, items |-> <<<<"Fixed", SP, "Z">>>>]>>
DocEmptyCategory ==
    <<[name |-> <<"Features">>, items |-> <<>>],
      [name |-> <<"Bug", SP, "Fixes">>, items |-> <<<<"Fixed", SP, "Z">>>>]>>
DocNoCategories == <<>>
DocRule ==
    <<[name |-> <<"Layout">>,
       items |-> <<<<"Rule", SP>> \o Rep(BOX, DividerLen) \o <<STAR, "rule", STAR>>>>]>>

Docs == <<DocOne, DocTwo, DocEmptyCategory, DocNoCategories, DocRule>>

\* json.dumps of a document.
Q(s) == <<QUOTE>> \o s \o <<QUOTE>>

DumpCategory(c) ==
    <<"{">> \o Q(<<"name">>) \o <<":", SP>> \o Q(c.name) \o <<",", SP>>
    \o Q(<<"items">>) \o <<":", SP, "[">>
    \o Join([i \in 1..Len(c.items) |-> Q(c.items[i])], <<",", SP>>) \o <<"]", "}">>

DumpDoc(doc) ==
    <<"{">> \o Q(<<"categories">>) \o <<":", SP, "[">>
    \o Join([i \in 1..Len(doc) |-> DumpCategory(doc[i])], <<",", SP>>) \o <<"]", "}">>

Wraps == <<"bare", "tag", "fence">>

Wrapped(w, t) ==
    IF w = "bare" THEN t
    ELSE IF w = "tag" THEN <<"json", NL>> \o t
    ELSE <<FENCE, "json", NL>> \o t \o <<NL, FENCE>>

\* A reply is [text, kind, doc, wrap]: kind "doc" for the dump of a document
\* (bare, after a language tag, or in a fenced block with the tag),
\* "syntax" for text that is no JSON, "shape" for JSON of another shape.
DocReplies ==
    [n \in 1..(Len(Docs) * Len(Wraps)) |->
        LET d == Docs[((n - 1) \div Len(Wraps)) + 1]
            w == Wraps[((n - 1) % Len(Wraps)) + 1]
        IN  [text |-> Wrapped(w, DumpDoc(d)), kind |-> "doc", doc |-> d, wrap |-> w]]

Bad(kind, text) == [text |-> text, kind |-> kind, doc |-> <<>>, wrap |-> "bare"]

BadReplies ==
    <<Bad("syntax", SubSeq(DumpDoc(DocOne), 1, Len(DumpDoc(DocOne)) - 1)),
      Bad("syntax", <<"Here", SP, "are", SP, "the", SP, "notes">>),
      Bad("syntax", <<"Unable to generate summary.">>),
      Bad("syntax", <<FENCE, NL>> \o DumpDoc(DocOne) \o <<NL, FENCE>>),
      Bad("shape", <<"[", "1", "]">>),
      Bad("shape", Q(<<"Features">>)),
      Bad("shape", <<"{">> \o Q(<<"categories">>) \o <<":", SP, "5", "}">>),
      Bad("shape", <<"{">> \o Q(<<"categories">>) \o <<":", SP, "null", "}">>),
      Bad("shape", <<"{">> \o Q(<<"categories">>) \o <<":", SP, "[", "1", "]", "}">>),
      Bad("shape", <<"{">> \o Q(<<"categories">>) \o <<":", SP, "[", "{">> \o Q(<<"name">>)
                   \o <<":", SP>> \o Q(<<"Features">>) \o <<",", SP>> \o Q(<<"items">>)
                   \o <<":", SP, "5", "}", "]", "}">>),
      Bad("shape", <<"{">> \o Q(<<"notes">>) \o <<":", SP, "[", "]", "}">>)>>

Replies == DocReplies \o BadReplies

\* What generate_summary does: raise (reply_id 0), or return Replies[reply_id].
Provider(reply_id) ==
    IF reply_id = 0 THEN [raises |-> TRUE, reply |-> <<>>]
    ELSE [raises |-> FALSE, reply |-> Replies[reply_id].text]

\* The replies a run draws from: a bare document, a fenced one with an empty
\* category, text that is no JSON, and a JSON list.
RunReplyIds == {0, 1, 9, Len(DocReplies) + 2, Len(DocReplies) + 5}

\* The texts given to summarize_with_ai directly.
TextPool ==
    {<<>>, Sentinel, format_prs_for_summary(<<PrFeature>>),
     format_prs_for_summary(<<PrDeps, PrRevert>>)}

\* The sections a message given to post_to_slack directly is made of:
\* structured outputs of summarize_with_ai, each for a repository and a
\* document.
SectionDocIds == {1, 3, 4, 5}

SectionParts == [repo : RepoPool, doc_id : SectionDocIds]

SectionOf(part) ==
    summarize_with_ai(part.repo, format_prs_for_summary(<<PrFeature>>),
                      [raises |-> FALSE, reply |-> DumpDoc(Docs[part.doc_id])]).text

DateRange == <<"25 Oct 2026 - 01 Nov 2026">>

\* ------------------------------------------------------------------------
\* The program: main() constructs the generator (the three connectivity
\* checks) and calls generate_release_notes; a caller of the class may also
\* call one of its public methods on the constructed generator.
\* ------------------------------------------------------------------------

VARIABLES
    pc,             \* where the program is
    repos,          \* the repos argument of generate_release_notes
    idx,            \* the position of the for loop in repos
    prs,            \* the local prs of the loop body
    all_summaries,  \* the per-run accumulator
    log,            \* the calls made to the three services, in order
    iters,          \* what the services answered in each loop iteration
    posted,         \* the payload of the last chat_postMessage
    file,           \* generated_message.txt: <<>> or <<its content>>
    ret             \* the arguments and result of a direct method call

vars == <<pc, repos, idx, prs, all_summaries, log, iters, posted, file, ret>>

Event(op, repo, ok, arg) == [op |-> op, repo |-> repo, ok |-> ok, arg |-> arg]

NoRet == [fn |-> "none"]

Init ==
    /\ pc = "test_github"
    /\ repos = <<>>
    /\ idx = 0
    /\ prs = <<>>
    /\ all_summaries = <<>>
    /\ log = <<>>
    /\ iters = <<>>
    /\ posted = <<>>
    /\ file = <<>>
    /\ ret = NoRet

\* _test_connections, first try block: self.github_client.get_user()
TestGithub ==
    /\ pc = "test_github"
    /\ \E ok \in BOOLEAN :
        /\ log' = Append(log, Event("get_user", <<>>, ok, <<>>))
        /\ pc' = IF ok THEN "test_slack" ELSE "exit1"
    /\ UNCHANGED <<repos, idx, prs, all_summaries, iters, posted, file, ret>>

\* _test_connections, second try block: self.slack_client.auth_test()
TestSlack ==
    /\ pc = "test_slack"
    /\ \E ok \in BOOLEAN :
        /\ log' = Append(log, Event("auth_test", <<>>, ok, <<>>))
        /\ pc' = IF ok THEN "test_ai" ELSE "exit1"
    /\ UNCHANGED <<repos, idx, prs, all_summaries, iters, posted, file, ret>>

\* _test_connections, third try block: self.ai_provider.test_connection(),
\* which returns True or False (both providers catch their own exceptions).
TestAI ==
    /\ pc = "test_ai"
    /\ \E result \in BOOLEAN :
        /\ log' = Append(log, Event("test_connection", <<>>, result, <<>>))
        /\ pc' = IF AiCheckPasses(result) THEN "ready" ELSE "exit1"
    /\ UNCHANGED <<repos, idx, prs, all_summaries, iters, posted, file, ret>>

\* generate_release_notes(repos, days_back) up to the loop:
\* "if not repos: return".
GenerateReleaseNotes ==
    /\ pc = "ready"
    /\ \E arg \in BSeq(RepoArgs, MaxRepos) :
        /\ repos' = arg
        /\ pc' = IF arg = <<>> THEN "done" ELSE "loop"
    /\ idx' = 1
    /\ ret' = [fn |-> "generate_release_notes"]
    /\ UNCHANGED <<prs, all_summaries, log, iters, posted, file>>

\* The loop body for a blank entry: "continue".
SkipBlank ==
    /\ pc = "loop"
    /\ idx <= Len(repos)
    /\ IsBlankRepo(repos[idx])
    /\ idx' = idx + 1
    /\ UNCHANGED <<pc, repos, prs, all_summaries, log, iters, posted, file, ret>>

Iter(repo, fetch_ok, fetched, reply_id) ==
    [repo |-> repo, fetch_ok |-> fetch_ok, prs |-> fetched, reply_id |-> reply_id]

\* The loop body up to "if not prs": get_merged_prs raises (the except
\* clause records the error sentence), returns nothing, or returns prs.
Fetch ==
    /\ pc = "loop"
    /\ idx <= Len(repos)
    /\ ~IsBlankRepo(repos[idx])
    /\ \E repo \in {Strip(repos[idx])} :
           \/ /\ log' = Append(log, Event("get_merged_prs", repo, FALSE, <<>>))
              /\ all_summaries' = Append(all_summaries, ErrorSentence(repo, FetchError))
              /\ iters' = Append(iters, Iter(repo, FALSE, <<>>, 0))
              /\ idx' = idx + 1
              /\ UNCHANGED <<pc, prs>>
           \/ \E fetched \in RunFetches :
              /\ log' = Append(log, Event("get_merged_prs", repo, TRUE, <<>>))
              /\ IF fetched = <<>>
                 THEN /\ all_summaries' = Append(all_summaries, NoChanges(repo))
                      /\ iters' = Append(iters, Iter(repo, TRUE, <<>>, 0))
                      /\ idx' = idx + 1
                      /\ UNCHANGED <<pc, prs>>
                 ELSE /\ prs' = fetched
                      /\ pc' = "summarize"
                      /\ UNCHANGED <<all_summaries, iters, idx>>
    /\ UNCHANGED <<repos, posted, file, ret>>

\* What one summarize_with_ai adds to the calls made: the single
\* self.ai_provider.generate_summary(system_prompt, user_prompt) of line 315,
\* when it is reached; neither except clause calls it again.
ProviderCallsRetried(repo, prs_text, answered, called) ==
    IF ~called THEN <<>>
    ELSE IF answered THEN <<Event("generate_summary", repo, TRUE, prs_text)>>
    ELSE <<Event("generate_summary", repo, FALSE, prs_text),
           Event("generate_summary", repo, FALSE, prs_text)>>

ProviderCalls(repo, prs_text, answered, called) ==
    IF called THEN <<Event("generate_summary", repo, answered, prs_text)>> ELSE <<>>

\* The rest of the loop body: format_prs_for_summary(prs), summarize_with_ai,
\* all_summaries.append(summary).
Summarize ==
    /\ pc = "summarize"
    /\ \E reply_id \in RunReplyIds, repo \in {Strip(repos[idx])},
          regular_prs_text \in {format_prs_for_summary(prs)} :
        \E summary \in {summarize_with_ai(repo, regular_prs_text, Provider(reply_id))} :
            /\ log' = log \o ProviderCalls(repo, regular_prs_text, reply_id # 0,
                                            summary.called)
            /\ all_summaries' = Append(all_summaries, summary.text)
            /\ iters' = Append(iters, Iter(repo, TRUE, prs, reply_id))
    /\ idx' = idx + 1
    /\ prs' = <<>>
    /\ pc' = "loop"
    /\ UNCHANGED <<repos, posted, file, ret>>

Payload(message, date_range) ==
    [text |-> TextVersion(message), blocks |-> BuildBlocks(message, date_range)]

\* After the loop, "if all_summaries": join and post_to_slack, whose
\* chat_postMessage is accepted or rejected.
Publish ==
    /\ pc = "loop"
    /\ idx > Len(repos)
    /\ all_summaries # <<>>
    /\ \E full_message \in {Join(all_summaries, <<NL, NL>>)}, ok \in BOOLEAN :
            /\ log' = Append(log, Event("chat_postMessage", <<>>, ok, full_message))
            /\ posted' = <<Payload(full_message, DateRange)>>
            /\ pc' = AfterPost(ok)
    /\ UNCHANGED <<repos, idx, prs, all_summaries, iters, file, ret>>

\* After the loop, the else branch: "No summaries generated".
NothingToPublish ==
    /\ pc = "loop"
    /\ idx > Len(repos)
    /\ all_summaries = <<>>
    /\ pc' = "done"
    /\ UNCHANGED <<repos, idx, prs, all_summaries, log, iters, posted, file, ret>>

\* with open("generated_message.txt", "w") as f: f.write(full_message)
WriteFile ==
    /\ pc = "write"
    /\ \E full_message \in {Join(all_summaries, <<NL, NL>>)} :
           /\ file' = <<full_message>>
           /\ log' = Append(log, Event("write", <<>>, TRUE, full_message))
    /\ pc' = "done"
    /\ UNCHANGED <<repos, idx, prs, all_summaries, iters, posted, ret>>

\* A direct call of filter_prs.
CallFilter ==
    /\ pc = "ready"
    /\ \E q \in PrLists :
        ret' = [fn |-> "filter_prs", prs |-> q, result |-> filter_prs(q)]
    /\ pc' = "returned"
    /\ UNCHANGED <<repos, idx, prs, all_summaries, log, iters, posted, file>>

\* A direct call of format_prs_for_summary.
CallFormat ==
    /\ pc = "ready"
    /\ \E q \in PrLists :
        ret' = [fn |-> "format_prs_for_summary", prs |-> q,
                result |-> format_prs_for_summary(q)]
    /\ pc' = "returned"
    /\ UNCHANGED <<repos, idx, prs, all_summaries, log, iters, posted, file>>

\* A direct call of summarize_with_ai.
CallSummarize ==
    /\ pc = "ready"
    /\ \E repo \in RepoPool, prs_text \in TextPool, reply_id \in 0..Len(Replies) :
        \E summary \in {summarize_with_ai(repo, prs_text, Provider(reply_id))} :
            /\ ret' = [fn |-> "summarize_with_ai", repo |-> repo, prs_text |-> prs_text,
                       reply_id |-> reply_id, result |-> summary]
            /\ log' = log \o ProviderCalls(repo, prs_text, reply_id # 0, summary.called)
    /\ pc' = "returned"
    /\ UNCHANGED <<repos, idx, prs, all_summaries, iters, posted, file>>

\* A direct call of post_to_slack, on a message joined from sections.
CallPost ==
    /\ pc = "ready"
    /\ \E parts \in BSeq(SectionParts, MaxSections), date_range \in {<<>>, DateRange},
          ok \in BOOLEAN :
        \E sections \in {[i \in 1..Len(parts) |-> SectionOf(parts[i])]} :
        \E message \in {Join(sections, <<NL, NL>>)} :
            /\ ret' = [fn |-> "post_to_slack", parts |-> parts, sections |-> sections,
                       message |-> message, raised |-> ~ok]
            /\ posted' = <<Payload(message, date_range)>>
            /\ log' = Append(log, Event("chat_postMessage", <<>>, ok, message))
    /\ pc' = "returned"
    /\ UNCHANGED <<repos, idx, prs, all_summaries, iters, file>>

Next ==
    \/ TestGithub
    \/ TestSlack
    \/ TestAI
    \/ GenerateReleaseNotes
    \/ SkipBlank
    \/ Fetch
    \/ Summarize
    \/ Publish
    \/ NothingToPublish
    \/ WriteFile
    \/ CallFilter
    \/ CallFormat
    \/ CallSummarize
    \/ CallPost

Spec == Init /\ [][Next]_vars

\* ------------------------------------------------------------------------
\* Properties
\* ------------------------------------------------------------------------

InRun == ret.fn = "generate_release_notes"

\* The run has left the loop of generate_release_notes.
LoopOver == InRun /\ (pc \in {"write", "done", "exit1"} \/ (pc = "loop" /\ idx > Len(repos)))

Finished == InRun /\ pc \in {"done", "exit1"}

AllBlank(name) == \A n \in 1..Len(name) : name[n] \in {SP, NL}

\* The configured repositories that are not blank, stripped, in order.
RECURSIVE NonBlank(_)
NonBlank(rs) ==
    IF rs = <<>> THEN <<>>
    ELSE IF AllBlank(Head(rs)) THEN NonBlank(Tail(rs))
    ELSE <<Strip(Head(rs))>> \o NonBlank(Tail(rs))

Ops(op) == {i \in 1..Len(log) : log[i].op = op}

Names(e, repo) == StartsWith(e, <<STAR>> \o repo \o <<STAR>>)

IsErrorSentence(e) == Find(e, <<"Error processing repository">>) # 0

\* What a repository whose fetch succeeded contributes.
NormalSummary(it) ==
    IF it.prs = <<>>
    THEN <<STAR>> \o it.repo \o <<STAR, ":", SP, "No changes in the specified time period.">>
    ELSE summarize_with_ai(it.repo, format_prs_for_summary(it.prs), Provider(it.reply_id)).text

\* C1: partial-failure isolation.  Every repository processed so far has
\* exactly one entry in the accumulator, at its own position: the error
\* sentence naming it when its fetch raised, its normal summary otherwise;
\* and once the loop is over every non-blank repository has been processed,
\* whatever failed before it, and the joined entries are posted.
C1_PartialFailureIsolation ==
    InRun =>
        /\ Len(all_summaries) = Len(iters)
        /\ \A i \in 1..Len(iters) :
            /\ Names(all_summaries[i], iters[i].repo)
            /\ ~iters[i].fetch_ok => IsErrorSentence(all_summaries[i])
            /\ iters[i].fetch_ok =>
                /\ all_summaries[i] = NormalSummary(iters[i])
                /\ ~IsErrorSentence(all_summaries[i])
        /\ LoopOver => [i \in 1..Len(iters) |-> iters[i].repo] = NonBlank(repos)
        /\ (Finished /\ iters # <<>>) =>
            \E p \in Ops("chat_postMessage") : log[p].arg = Join(all_summaries, <<NL, NL>>)

\* C1 witness: a finished run of two repositories, the first failed, the
\* second summarized from a structured reply, the message posted and written.
C1_Witness ==
    /\ InRun /\ pc = "done" /\ Len(iters) = 2 /\ file # <<>>
    /\ ~iters[1].fetch_ok
    /\ iters[2].fetch_ok /\ iters[2].reply_id = 1

FailedPosts == {p \in Ops("chat_postMessage") : ~log[p].ok}

\* C2 (as claimed): a run whose post was rejected ends only after the file
\* write was attempted.
C2_Original_WriteAttemptedAfterFailedPost ==
    (Finished /\ FailedPosts # {}) => Ops("write") # {}

\* C2 (amended): when the post is rejected in a run, the run ends in failure
\* at once and the output file is never written.
C2_NoWriteAfterFailedPost ==
    (InRun /\ FailedPosts # {}) => (pc = "exit1" /\ Ops("write") = {} /\ file = <<>>)

\* C2 witness: a run ended by a rejected post, with summaries accumulated.
C2_Witness == Finished /\ FailedPosts # {} /\ all_summaries # <<>>

BlocksOf(type) == {i \in 1..Len(posted[1].blocks) : posted[1].blocks[i].type = type}

\* The texts of the header blocks after the overall title, in order.
RECURSIVE HeaderTexts(_)
HeaderTexts(blocks) ==
    IF blocks = <<>> THEN <<>>
    ELSE (IF Head(blocks).type = "header" THEN <<Head(blocks).text>> ELSE <<>>)
         \o HeaderTexts(Tail(blocks))

C3_Counts ==
    LET n == Len(ret.parts)
    IN  /\ Cardinality(BlocksOf("header")) = 1 + n
        /\ Cardinality(BlocksOf("divider")) = n + 1
        /\ Tail(HeaderTexts(posted[1].blocks)) = [i \in 1..n |-> ret.parts[i].repo]

\* The divider marker occurs in the section once: as its last line.
MarkerOnlyEnds(section) == Len(Split(section, Rep(BOX, 50))) = 2

\* C3 (as claimed): a message of n structured sections gives 1 + n header
\* blocks and n + 1 divider blocks, the repository headers in section order.
C3_Original_BlockCounts == ret.fn = "post_to_slack" => C3_Counts

\* C3 (amended): the same, for sections in which the divider marker occurs
\* only as the terminating line (none inside a category name or an item).
C3_BlockCounts ==
    (ret.fn = "post_to_slack" /\ \A i \in 1..Len(ret.sections) : MarkerOnlyEnds(ret.sections[i]))
        => C3_Counts

\* C3 witness: two sections, one with a body and one without categories.
C3_Witness ==
    /\ ret.fn = "post_to_slack" /\ Len(ret.parts) = 2
    /\ ret.parts[1].doc_id = 1 /\ ret.parts[2].doc_id = 4
    /\ Cardinality(BlocksOf("header")) = 3

CallsProvider == ret.fn = "summarize_with_ai" /\ ret.prs_text \notin {<<>>, <<"No pull requests found.">>}

\* C4 (as claimed): every reply that is no JSON, or JSON of another shape,
\* comes back as the raw reply after the emphasised repository name.
C4_RawTextOnEveryUnparsableReply ==
    (CallsProvider /\ ret.reply_id # 0 /\ Replies[ret.reply_id].kind \in {"syntax", "shape"})
        => ret.result.text = <<STAR>> \o ret.repo \o <<STAR, ":", NL, NL>>
                             \o Replies[ret.reply_id].text

NoChangesSentence(repo) ==
    <<STAR>> \o repo \o <<STAR, ":", SP, "No changes in the specified time period.">>

\* C5: format_prs_for_summary of no pull requests is the sentinel;
\* summarize_with_ai on the sentinel or on empty text returns the "no
\* changes" sentence for the repository and calls no provider; and in a run
\* a repository whose fetch returns nothing contributes that sentence, the
\* provider being called only for the repositories fetched with pull requests.
C5_EmptyInputNoProviderCall ==
    /\ (ret.fn = "format_prs_for_summary" /\ ret.prs = <<>>)
        => ret.result = <<"No pull requests found.">>
    /\ (ret.fn = "summarize_with_ai" /\ ret.prs_text \in {<<>>, <<"No pull requests found.">>})
        => (ret.result.text = NoChangesSentence(ret.repo) /\ Ops("generate_summary") = {})
    /\ InRun =>
        /\ \A i \in 1..Len(iters) :
            (iters[i].fetch_ok /\ iters[i].prs = <<>>)
                => all_summaries[i] = NoChangesSentence(iters[i].repo)
        /\ Cardinality(Ops("generate_summary"))
            = Cardinality({i \in 1..Len(iters) : iters[i].fetch_ok /\ iters[i].prs # <<>>})

\* C5 witness: a finished run in which one repository had no pull requests
\* and another had some.
C5_Witness ==
    /\ Finished /\ Len(iters) = 2
    /\ iters[1].fetch_ok /\ iters[1].prs = <<>>
    /\ iters[2].fetch_ok /\ iters[2].prs # <<>>

\* The lines expected for the categories of a document: for each category
\* a line with its emphasised name, then one indented bullet line per item.
RECURSIVE ItemLines(_)
ItemLines(items) ==
    IF items = <<>> THEN <<>>
    ELSE <<<<SP, SP, CIRC, SP>> \o Head(items)>> \o ItemLines(Tail(items))

RECURSIVE CategoryLines(_, _)
CategoryLines(doc, skip_empty) ==
    IF doc = <<>> THEN <<>>
    ELSE (IF skip_empty /\ Head(doc).items = <<>> THEN <<>>
          ELSE <<<<BULLET, SP, STAR>> \o Head(doc).name \o <<STAR, ":">>>>
               \o ItemLines(Head(doc).items))
         \o CategoryLines(Tail(doc), skip_empty)

\* The lines of a text that are not empty.
RECURSIVE NonEmpty(_)
NonEmpty(lines) ==
    IF lines = <<>> THEN <<>>
    ELSE (IF Head(lines) = <<>> THEN <<>> ELSE <<Head(lines)>>) \o NonEmpty(Tail(lines))

\* The summary is the header line of the repository, the lines of the
\* categories, and the divider line at the end.
C6_Layout(skip_empty) ==
    LET doc == Replies[ret.reply_id].doc
        lines == Split(ret.result.text, <<NL>>)
    IN  /\ lines[1] = <<STAR>> \o ret.repo \o <<STAR>>
        /\ NonEmpty(lines)
            = <<lines[1]>> \o CategoryLines(doc, skip_empty) \o <<Rep(BOX, 50)>>
        /\ EndsWith(ret.result.text, Rep(BOX, 50) \o <<NL>>)

IsDocReply == CallsProvider /\ ret.reply_id # 0 /\ Replies[ret.reply_id].kind = "doc"

\* C6 (as claimed): for every document reply, bare, after a language tag or
\* in a fenced block: the header line, one line per category in reply order
\* followed by its bullet lines, the divider line.
C6_Original_LinePerCategory == IsDocReply => C6_Layout(FALSE)

\* C6 (amended): the same, with one line per category that has at least one
\* item; a category without items gets no line.
C6_LinePerNonEmptyCategory == IsDocReply => C6_Layout(TRUE)

\* C6 witness: a fenced reply of two categories, the first without items.
C6_Witness ==
    /\ IsDocReply
    /\ Replies[ret.reply_id].wrap = "fence"
    /\ Replies[ret.reply_id].doc = DocEmptyCategory
    /\ ret.result.branch = "structured"

\* A title that starts with chore(deps), in any letter case.
StartsWithChoreDeps(title) ==
    /\ Len(title) >= 4
    /\ title[1] \in {"chore", "Chore", "CHORE"}
    /\ title[2] = "("
    /\ title[3] \in {"deps", "Deps", "DEPS"}
    /\ title[4] = ")"

Range(q) == {q[i] : i \in 1..Len(q)}

Position(q, x) == CHOOSE i \in 1..Len(q) : q[i] = x

KeepsOrder(part, q) ==
    \A a, b \in 1..Len(part) : a < b => Position(q, part[a]) < Position(q, part[b])

\* C7: filter_prs partitions its input by the chore(deps) prefix, each group
\* in input order.
C7_FilterPartitions ==
    ret.fn = "filter_prs" =>
        LET regular == ret.result.regular
            deps == ret.result.deps
        IN  /\ \A pr \in Range(ret.prs) :
                IF StartsWithChoreDeps(pr.title)
                THEN pr \in Range(deps) /\ pr \notin Range(regular)
                ELSE pr \in Range(regular) /\ pr \notin Range(deps)
            /\ Range(regular) \cup Range(deps) = Range(ret.prs)
            /\ Len(regular) + Len(deps) = Len(ret.prs)
            /\ KeepsOrder(regular, ret.prs)
            /\ KeepsOrder(deps, ret.prs)

\* C7 witness: an upper-case chore(deps) title and a title that only
\* mentions chore(deps), filtered into one group each.
C7_Witness ==
    /\ ret.fn = "filter_prs"
    /\ ret.prs = <<PrMentionsDeps, PrDepsUpper>>
    /\ ret.result.deps = <<PrDepsUpper>>

ConnectivityChecks == <<"get_user", "auth_test", "test_connection">>

\* C8: with no repository configured (an empty list, or only blank names)
\* generate_release_notes makes no call to any service, posts nothing and
\* writes no file, and it ends without summaries.
C8_NoRepositoriesNoEffects ==
    (InRun /\ \A i \in 1..Len(repos) : AllBlank(repos[i])) =>
        /\ Len(log) = Len(ConnectivityChecks)
        /\ posted = <<>>
        /\ file = <<>>
        /\ all_summaries = <<>>
        /\ pc \in {"loop", "done"}

\* C8 witness: a run over two blank names, ended.
C8_Witness ==
    /\ InRun /\ pc = "done" /\ Len(repos) = 2
    /\ \A i \in 1..Len(repos) : AllBlank(repos[i])

\* C9: the three checks run in the order source control, chat, provider; a
\* failed one (a test_connection returning false included) is the last call
\* the program makes: it exits in failure with nothing fetched, summarized,
\* posted or written.
C9_FailedCheckAborts ==
    /\ \A i \in 1..Len(log) : i <= 3 => log[i].op = ConnectivityChecks[i]
    /\ \A i \in 1..Len(log) :
        (i <= 3 /\ ~log[i].ok) =>
            /\ pc = "exit1"
            /\ Len(log) = i
            /\ ret.fn = "none"
            /\ posted = <<>> /\ file = <<>> /\ all_summaries = <<>> /\ iters = <<>>

\* C9 witness: the provider's test_connection returned false.
C9_Witness == pc = "exit1" /\ Len(log) = 3 /\ ~log[3].ok

\* C10: in a run the post happens at most once, and exactly once by the end
\* when a repository is not blank; it comes after every call for a
\* repository, with every non-blank repository processed; the file is
\* written only after a post that succeeded, with the text given to it.
C10_PostOnceThenWrite ==
    InRun =>
        /\ Cardinality(Ops("chat_postMessage")) <= 1
        /\ (Finished /\ NonBlank(repos) # <<>>) => Cardinality(Ops("chat_postMessage")) = 1
        /\ \A p \in Ops("chat_postMessage") :
            /\ \A c \in Ops("get_merged_prs") \cup Ops("generate_summary") : c < p
            /\ Len(iters) = Len(NonBlank(repos))
            /\ log[p].arg = Join(all_summaries, <<NL, NL>>)
        /\ \A w \in Ops("write") :
            \E p \in Ops("chat_postMessage") : p < w /\ log[p].ok /\ log[p].arg = log[w].arg
        /\ file # <<>> => \E w \in Ops("write") : file = <<log[w].arg>>

\* C10 witness: a finished run of two repositories with the file written.
C10_Witness ==
    /\ Finished /\ Len(iters) = 2 /\ file # <<>>
    /\ Cardinality(Ops("chat_postMessage")) = 1

\* The repositories of the calls of one operation, in the order of the calls.
RECURSIVE CallRepos(_, _)
CallRepos(events, op) ==
    IF events = <<>> THEN <<>>
    ELSE (IF Head(events).op = op THEN <<Head(events).repo>> ELSE <<>>)
         \o CallRepos(Tail(events), op)

\* The repositories of the iterations whose fetch returned pull requests.
RECURSIVE FetchedRepos(_)
FetchedRepos(its) ==
    IF its = <<>> THEN <<>>
    ELSE (IF Head(its).fetch_ok /\ Head(its).prs # <<>> THEN <<Head(its).repo>> ELSE <<>>)
         \o FetchedRepos(Tail(its))

\* C11: in a run generate_summary is called exactly once for each entry of
\* the repository list whose fetch returned at least one pull request, in
\* list order, and for no other entry, so at most once per entry; a call
\* that failed is followed by no second call for that entry; and every call
\* the run makes has ended before the next one is made (the calls are the
\* entries of one log, made from one place of control at a time).
C11_OneProviderCallPerRepository ==
    InRun =>
        /\ CallRepos(log, "generate_summary") = FetchedRepos(iters)
        /\ Cardinality(Ops("generate_summary")) <= Len(NonBlank(repos))
        /\ \A p \in Ops("generate_summary") :
            \A q \in Ops("generate_summary") :
                (p < q /\ ~log[p].ok) => \E f \in Ops("get_merged_prs") : p < f /\ f < q
        /\ pc = "summarize" => (log # <<>> /\ log[Len(log)].op = "get_merged_prs")

\* C11 witness: a finished run of two repositories fetched with pull
\* requests, the provider call of the first failed, the second answered.
C11_Witness ==
    /\ Finished /\ Len(iters) = 2
    /\ iters[1].fetch_ok /\ iters[1].prs # <<>> /\ iters[1].reply_id = 0
    /\ iters[2].fetch_ok /\ iters[2].prs # <<>> /\ iters[2].reply_id # 0
    /\ Cardinality(Ops("generate_summary")) = 2

\* C12: in a run the accumulator is, entry by entry, about the non-blank
\* entries of the repository list in list order (the i-th entry opens with
\* the emphasised name of the i-th non-blank repository), it never holds
\* more entries than there are non-blank repositories, and once the loop is
\* over it holds exactly one for each, whatever was fetched, summarized or
\* failed.
C12_AccumulatorInRepositoryOrder ==
    InRun =>
        /\ Len(all_summaries) <= Len(NonBlank(repos))
        /\ \A i \in 1..Len(all_summaries) : Names(all_summaries[i], NonBlank(repos)[i])
        /\ LoopOver => Len(all_summaries) = Len(NonBlank(repos))
        /\ pc = "summarize" => Len(all_summaries) = Len(NonBlank(SubSeq(repos, 1, idx - 1)))

\* C12 witness: the loop is over for two repositories: the fetch of one
\* returned nothing, the provider failed for the other.
C12_Witness ==
    /\ LoopOver /\ Len(all_summaries) = 2
    /\ \E i, j \in 1..2 :
        /\ iters[i].fetch_ok /\ iters[i].prs = <<>>
        /\ iters[j].fetch_ok /\ iters[j].prs # <<>> /\ iters[j].reply_id = 0

\* The pull requests whose title has the chore(deps) prefix.
DependencyPrs == {pr \in PrPool : StartsWithChoreDeps(pr.title)}

\* C13 (as claimed): in a run, the text given to generate_summary for a
\* repository holds the block of no pull request whose title has the
\* chore(deps) prefix: it is the formatting of the regular pull requests of
\* what was fetched.
C13_OnlyRegularPrsSent ==
    InRun =>
        \A p \in Ops("generate_summary") :
            \A pr \in DependencyPrs : Find(log[p].arg, PrInfo(pr)) = 0

\* C14 (as claimed): when a run posts, the header blocks after the overall
\* title are those of the repositories that have an entry in the joined
\* text, one each, in order.
C14_EveryEntryHasItsHeader ==
    (InRun /\ posted # <<>>) =>
        Tail(HeaderTexts(posted[1].blocks)) = [i \in 1..Len(iters) |-> iters[i].repo]

\* "{n} pull requests merged. See individual PRs for details." after the
\* emphasised name of the repository.
CountSentence(repo, n) ==
    <<STAR>> \o repo
    \o <<STAR, ":", SP, ToString(n), SP, "pull requests merged. See individual PRs for details.">>

\* C15 (as claimed): in a run, a repository whose provider call failed
\* contributes the count-only sentence with the number of pull requests
\* that were formatted into the text given to summarize_with_ai.
C15_CountIsNumberOfPrs ==
    InRun =>
        \A i \in 1..Len(iters) :
            (iters[i].fetch_ok /\ iters[i].prs # <<>> /\ iters[i].reply_id = 0)
                => all_summaries[i] = CountSentence(iters[i].repo, Len(iters[i].prs))

=============================================================================
